---- MODULE Spec2Model ----
(***************************************************************************)
(* A model of dhcp_121.py: the DHCP option 121 decoder, the routing-table  *)
(* snapshot, the stale-route clear pass, the add pass and main().          *)
(*                                                                         *)
(* Dotted quads are sequences of octets (the text "10.0.1.0" is            *)
(* <<10, 0, 1, 0>>); a Python value whose type matters keeps its type      *)
(* (PyInt, PyStr); tokens of command output are strings.                   *)
(***************************************************************************)
EXTENDS Integers, Sequences, FiniteSets, TLC

VARIABLES
    pc,             \* position of the running call
    records,        \* the (prefixLength, subnet, gateway) tuples a capture encodes
    tail,           \* the bytes of a truncated trailing record of the capture
    option_data,    \* the option_121 lines of the lease packet, split in tokens
    routes,         \* the routes decode_option_121 returned
    error,          \* the uncaught exception that ended the call, "" when none
    route_table,    \* the kernel routing table, as the rows `netstat -f inet -rn` prints
    current_routes, \* the snapshot get_route_table_with_masks returned
    link_state,     \* what `networksetup -getmedia` reports as Active, per interface
    if_addresses,   \* the IPv4 addresses `ifconfig <nic> inet` shows, per interface
    ipconfig,       \* what `ipconfig getpacket` does for the monitored interface
    override,       \* the settings of the override file
    main_nic,       \* main: the monitored interface (its local `nic`)
    forcenics,      \* the force list passed to clear_routes
    safenics,       \* the safe list passed to clear_routes
    addresses,      \* the interface addresses passed to set_routes
    gatewaycheck,   \* the gateway check setting passed to set_routes
    static_routes,  \* the static routes passed to set_routes
    pending,        \* the route commands the running pass has yet to issue
    log,            \* every route command issued so far, with how it ended
    calls,          \* the passes entered so far, with the run they belong to
    run,            \* the number of the current run
    ended,          \* the kernel routing table at the end of each run of main
    plist,          \* the lines of the bundle's Info.plist on disk
    option_code,    \* the argument add_dhcp_request_option.py was started with
    file_needs_change   \* what process_plist_file last returned with its lines

capture == <<records, tail, option_data>>
bundle == <<plist, option_code, file_needs_change>>
environment == <<link_state, if_addresses, ipconfig, override, bundle>>
locals == <<main_nic, forcenics, safenics, addresses, gatewaycheck, static_routes>>
history == <<pending, log, calls, run, ended>>

vars == <<pc, capture, routes, error, route_table, current_routes, environment,
          locals, history>>

(***************************************************************************)
(* Python values                                                           *)
(***************************************************************************)

\* An int and a str never compare equal in Python 2, whatever their text.
PyInt(n) == [type |-> "int", text |-> ToString(n)]
PyStr(s) == [type |-> "str", text |-> s]
PyTrue == [type |-> "bool", text |-> "True"]
PyFalse == [type |-> "bool", text |-> "False"]

\* The parts of the state a specification leaves aside.
NoCapture == records = <<>> /\ tail = <<>> /\ option_data = <<>>
NoKernel == route_table = <<>> /\ current_routes = <<>>
NoBundle == plist = <<>> /\ option_code = "" /\ file_needs_change = FALSE
NoEnvironment ==
    /\ NoBundle
    /\ link_state = <<>>
    /\ if_addresses = <<>>
    /\ ipconfig = [exit |-> 1, option_121 |-> <<>>]
    /\ override = <<>>
NoLocals ==
    /\ main_nic = ""
    /\ forcenics = <<>>
    /\ safenics = <<>>
    /\ addresses = <<>>
    /\ gatewaycheck = PyTrue
    /\ static_routes = <<>>
NoHistory == pending = <<>> /\ log = <<>> /\ calls = <<>> /\ run = 1 /\ ended = <<>>

Min(a, b) == IF a < b THEN a ELSE b

(***************************************************************************)
(* The capture that `ipconfig getpacket` prints for option_121             *)
(***************************************************************************)

HexDigits == <<"0", "1", "2", "3", "4", "5", "6", "7",
               "8", "9", "a", "b", "c", "d", "e", "f">>

\* A data byte as the capture prints it: two hex digits.
HexToken == [b \in 0..255 |-> HexDigits[(b \div 16) + 1] \o HexDigits[(b % 16) + 1]]

\* Bytes of one capture line.
BytesPerLine == 16

\* The capture's last column renders every byte as one character.
GutterChar(b) == IF b = 97 THEN "a" ELSE IF b = 98 THEN "b" ELSE "."

RECURSIVE Gutter(_)
Gutter(bytes) ==
    IF bytes = <<>> THEN "" ELSE GutterChar(Head(bytes)) \o Gutter(Tail(bytes))

\* The offset label of the line that starts at byte `offset`.
OffsetLabel(offset) == "00" \o HexToken[offset]

\* One capture line, as line.split() sees it: label, data bytes, gutter.
CaptureLine(bytes, offset) ==
    <<OffsetLabel(offset)>> \o [i \in 1..Len(bytes) |-> HexToken[bytes[i]]]
        \o <<Gutter(bytes)>>

RECURSIVE CaptureFrom(_, _)
CaptureFrom(bytes, offset) ==
    IF bytes = <<>> THEN <<>>
    ELSE LET n == Min(Len(bytes), BytesPerLine)
         IN  <<CaptureLine(SubSeq(bytes, 1, n), offset)>>
                 \o CaptureFrom(SubSeq(bytes, n + 1, Len(bytes)), offset + n)

Capture(bytes) == CaptureFrom(bytes, 0)

(***************************************************************************)
(* decode_option_121                                                       *)
(***************************************************************************)

\* `entry is not '..'`: entry is a fresh object made by split(), never the
\* literal's object, so the identity test lets every entry through.
IsNotTwoDots(entry) == TRUE

RECURSIVE FilterEntries(_)
FilterEntries(splitted) ==
    IF splitted = <<>> THEN <<>>
    ELSE LET entry == Head(splitted)
         IN  (IF Len(entry) < 3 /\ IsNotTwoDots(entry) THEN <<entry>> ELSE <<>>)
                 \o FilterEntries(Tail(splitted))

\* The first loop: the entries under three characters of every line, in order.
RECURSIVE ByteStream(_)
ByteStream(lines) ==
    IF lines = <<>> THEN <<>>
    ELSE FilterEntries(Head(lines)) \o ByteStream(Tail(lines))

\* int(byte, 16); -1 stands for the ValueError of a text that is no hex number.
IntBase16(entry) ==
    IF \E b \in 0..255 : HexToken[b] = entry
    THEN CHOOSE b \in 0..255 : HexToken[b] = entry
    ELSE IF \E d \in 1..16 : HexDigits[d] = entry
         THEN (CHOOSE d \in 1..16 : HexDigits[d] = entry) - 1
         ELSE -1

RECURSIVE PadSubnet(_)
PadSubnet(dot_subnet) ==
    IF Len(dot_subnet) < 4 THEN PadSubnet(Append(dot_subnet, 0)) ELSE dot_subnet

DecodeStart ==
    [subnet_mask |-> 0, net_bytes |-> 0, gateway_bytes |-> 4,
     dot_subnet |-> <<>>, dot_gateway |-> <<>>, routes |-> <<>>]

\* The body of the second loop for one byte.
DecodeByte(st, byte) ==
    IF st.subnet_mask # 0
    THEN LET taken ==
                 IF st.net_bytes # 0
                 THEN [st EXCEPT !.dot_subnet = Append(@, byte),
                                 !.net_bytes = @ - 1]
                 ELSE [st EXCEPT !.dot_gateway = Append(@, byte),
                                 !.gateway_bytes = @ - 1]
         IN  IF taken.gateway_bytes = 0
             THEN [taken EXCEPT
                       !.routes = Append(@, [subnet |-> PadSubnet(taken.dot_subnet),
                                             mask |-> PyInt(taken.subnet_mask),
                                             gateway |-> taken.dot_gateway]),
                       !.subnet_mask = 0,
                       !.dot_subnet = <<>>,
                       !.dot_gateway = <<>>,
                       !.gateway_bytes = 4]
             ELSE taken
    ELSE [st EXCEPT !.subnet_mask = byte, !.net_bytes = byte \div 8]

RECURSIVE DecodeLoop(_, _)
DecodeLoop(byte_stream, st) ==
    IF byte_stream = <<>> THEN [raised |-> "", routes |-> st.routes]
    ELSE LET byte == IntBase16(Head(byte_stream))
         IN  IF byte < 0 THEN [raised |-> "ValueError", routes |-> <<>>]
             ELSE DecodeLoop(Tail(byte_stream), DecodeByte(st, byte))

decode_option_121(lines) == DecodeLoop(ByteStream(lines), DecodeStart)

(***************************************************************************)
(* The decoder on its own: captures of whole records and a truncated one   *)
(***************************************************************************)

\* Most records of a capture.
MaxRecords == 2

Record(p, s, g) == [prefixLength |-> p, subnet |-> s, gateway |-> g]

Records ==
    { Record(0, <<0, 0, 0, 0>>, <<192, 168, 1, 1>>),
      Record(8, <<10, 0, 0, 0>>, <<192, 168, 1, 254>>),
      Record(17, <<10, 2, 128, 0>>, <<192, 168, 0, 29>>),
      Record(24, <<10, 0, 1, 0>>, <<192, 168, 1, 254>>),
      Record(25, <<192, 168, 3, 128>>, <<192, 168, 0, 29>>),
      Record(32, <<172, 16, 5, 9>>, <<10, 0, 0, 1>>) }

\* The wire form of one record: prefix byte, floor(prefix / 8) subnet octets,
\* four gateway octets.
Encode(r) ==
    <<r.prefixLength>> \o SubSeq(r.subnet, 1, r.prefixLength \div 8) \o r.gateway

RECURSIVE EncodeAll(_)
EncodeAll(rs) == IF rs = <<>> THEN <<>> ELSE Encode(Head(rs)) \o EncodeAll(Tail(rs))

RecordLists == UNION { [1..n -> Records] : n \in 0..MaxRecords }

\* The proper prefixes of a record's wire form, the empty one included.
Truncations ==
    UNION { { SubSeq(Encode(r), 1, n) : n \in 0..(Len(Encode(r)) - 1) } : r \in Records }

InitDecode ==
    /\ records \in RecordLists
    /\ tail \in Truncations
    /\ option_data = Capture(EncodeAll(records) \o tail)
    /\ routes = <<>>
    /\ error = ""
    /\ pc = "decode_option_121"
    /\ NoKernel
    /\ NoEnvironment
    /\ NoLocals
    /\ NoHistory

Decode ==
    /\ pc = "decode_option_121"
    /\ LET result == decode_option_121(option_data)
       IN  /\ routes' = result.routes
           /\ error' = result.raised
    /\ pc' = "decoded"
    /\ UNCHANGED <<capture, route_table, current_routes, environment, locals, history>>

NextDecode == Decode

SpecDecode == InitDecode /\ [][NextDecode]_vars

\* The route a record stands for: its leading floor(prefix / 8) subnet octets
\* followed by zero octets, its prefix length and its gateway.
RouteOf(r) ==
    [subnet |-> [i \in 1..4 |-> IF i <= r.prefixLength \div 8 THEN r.subnet[i] ELSE 0],
     prefixLength |-> r.prefixLength,
     gateway |-> r.gateway]

\* What a decoded route says, its prefix length read as a number.
Decoded(route) ==
    [subnet |-> route.subnet,
     prefixLength |-> CHOOSE n \in 0..255 : ToString(n) = route.mask.text,
     gateway |-> route.gateway]

RoundTrips ==
    /\ error = ""
    /\ Len(routes) = Len(records)
    /\ \A i \in 1..Len(records) : Decoded(routes[i]) = RouteOf(records[i])

\* C5: a capture of whole records (prefix byte, floor(prefix / 8) subnet
\* octets, 4 gateway octets) decodes to the same number of routes in the same
\* order, each with its record's prefix length, gateway and zero-padded subnet.
C5_DecodeRoundTrip ==
    (pc = "decoded" /\ tail = <<>>) => RoundTrips

\* C9: when the capture ends inside a record, no route is emitted for that
\* record and the routes of the whole records before it are returned unchanged
\* and in order.
C9_TruncatedRecordDropped ==
    (pc = "decoded" /\ tail # <<>>) => RoundTrips

(***************************************************************************)
(* The routing table snapshot                                              *)
(***************************************************************************)

\* A netstat row, split in fields: item[0] the destination ("default", or
\* the leading octets of a network with or without "/bits"), item[1] the
\* gateway (an IPv4 address or a link-level name), item[5] the interface.
NetRow(octets, bits, gateway, netif) ==
    [default |-> FALSE, octets |-> octets, bits |-> bits,
     ipv4_gateway |-> TRUE, gateway |-> gateway, netif |-> netif, fields |-> 7]
LinkRow(octets, bits, netif) ==
    [default |-> FALSE, octets |-> octets, bits |-> bits,
     ipv4_gateway |-> FALSE, gateway |-> <<>>, netif |-> netif, fields |-> 7]
DefaultRow(gateway, netif) ==
    [default |-> TRUE, octets |-> <<>>, bits |-> "",
     ipv4_gateway |-> TRUE, gateway |-> gateway, netif |-> netif, fields |-> 7]

\* get_ipv4_routes without its test of the gateway field.
get_ipv4_routes_AnyGateway(table) ==
    LET Keep(item) == item.fields >= 6 /\ ~item.default
    IN  SelectSeq(table, Keep)

\* Rows of at least six fields with an IPv4 gateway, the default route left out.
get_ipv4_routes(table) ==
    LET Keep(item) == item.fields >= 6 /\ item.ipv4_gateway /\ ~item.default
    IN  SelectSeq(table, Keep)

\* The eight bits of one octet, most significant first.
Bits8(octet) == [i \in 1..8 |-> (octet \div (2 ^ (8 - i))) % 2]

\* struct.unpack('!L', socket.inet_aton(address)): the 32 bits of the address.
Unpack(address) ==
    Bits8(address[1]) \o Bits8(address[2]) \o Bits8(address[3]) \o Bits8(address[4])

\* bin(): the binary digits of a number, without leading zeros.
RECURSIVE Bin(_)
Bin(bits) ==
    IF Len(bits) > 1 /\ Head(bits) = 0 THEN Bin(Tail(bits)) ELSE bits

RECURSIVE ZeroFill(_)
ZeroFill(binary) == IF Len(binary) < 32 THEN ZeroFill(<<0>> \o binary) ELSE binary

ip_address_to_32bit(address) == ZeroFill(Bin(Unpack(address)))

\* string[:n]
Slice(string, n) == SubSeq(string, 1, Min(n, Len(string)))

RECURSIVE PadTarget(_)
PadTarget(target) == IF Len(target) < 4 THEN PadTarget(Append(target, 0)) ELSE target

\* The mask of a row that shows none: the three tests, in the code's order.
InferMask(target) ==
    LET bit_subnet == ip_address_to_32bit(target)
        m1 == IF Slice(bit_subnet, 1) = <<0>> THEN "8" ELSE ""
        m2 == IF Slice(bit_subnet, 2) = <<1, 0>> THEN "16" ELSE m1
        m3 == IF Slice(bit_subnet, 3) = <<1, 1>> THEN "24" ELSE m2
    IN  m3

SnapshotEntry(route) ==
    LET target == PadTarget(route.octets)
        mask == IF route.bits = "" THEN InferMask(target) ELSE route.bits
    IN  [subnet |-> target, mask |-> PyStr(mask),
         gateway |-> route.gateway, nic |-> route.netif]

get_route_table_with_masks(table) ==
    LET only_ipv4_routes == get_ipv4_routes(table)
    IN  [i \in 1..Len(only_ipv4_routes) |-> SnapshotEntry(only_ipv4_routes[i])]

(***************************************************************************)
(* The snapshot on its own                                                 *)
(***************************************************************************)

\* Most rows of a routing table.
MaxRows == 2

Rows ==
    { DefaultRow(<<192, 168, 1, 1>>, "en0"),
      NetRow(<<10>>, "", <<192, 168, 1, 254>>, "en0"),
      NetRow(<<127>>, "", <<127, 0, 0, 1>>, "lo0"),
      NetRow(<<128, 1>>, "", <<192, 168, 1, 254>>, "en1"),
      NetRow(<<172, 16>>, "", <<192, 168, 1, 254>>, "en1"),
      NetRow(<<192, 168, 5>>, "", <<192, 168, 1, 254>>, "en0"),
      NetRow(<<224, 0, 0>>, "", <<192, 168, 1, 1>>, "en1"),
      NetRow(<<192, 168, 1, 77>>, "", <<192, 168, 1, 1>>, "en0"),
      NetRow(<<10, 0, 1>>, "24", <<192, 168, 1, 254>>, "en0"),
      NetRow(<<10, 0, 2>>, "25", <<192, 168, 1, 253>>, "en1"),
      NetRow(<<192, 168, 7>>, "26", <<192, 168, 1, 253>>, "en1"),
      LinkRow(<<192, 168, 1>>, "", "en0"),
      LinkRow(<<169, 254>>, "", "en1") }

Tables == UNION { [1..n -> Rows] : n \in 0..MaxRows }

InitTable ==
    /\ route_table \in Tables
    /\ current_routes = <<>>
    /\ pc = "get_route_table_with_masks"
    /\ NoCapture
    /\ routes = <<>>
    /\ error = ""
    /\ NoEnvironment
    /\ NoLocals
    /\ NoHistory

Snapshot ==
    /\ pc = "get_route_table_with_masks"
    /\ current_routes' = get_route_table_with_masks(route_table)
    /\ pc' = "returned"
    /\ UNCHANGED <<capture, routes, error, route_table, environment, locals, history>>

NextTable == Snapshot

SpecTable == InitTable /\ [][NextTable]_vars

\* The leading bits of a destination, padded to a dotted quad.
LeadingBits(octets, n) == SubSeq(Unpack(PadTarget(octets)), 1, n)

\* The prefix length the classful rule gives, "" when none of its cases applies.
Classful(octets) ==
    IF LeadingBits(octets, 1) = <<0>> THEN "8"
    ELSE IF LeadingBits(octets, 2) = <<1, 0>> THEN "16"
    ELSE IF LeadingBits(octets, 2) = <<1, 1>> THEN "24"
    ELSE ""

\* C4: every retained row is padded to a dotted quad; a row with no explicit
\* /N gets prefix length 8, 16 or 24 by its leading bits 0, 10 or 11, and a row
\* with an explicit /N keeps N.
C4_ClassfulInference ==
    pc = "returned" =>
        LET kept == get_ipv4_routes(route_table)
        IN  /\ Len(current_routes) = Len(kept)
            /\ \A i \in 1..Len(kept) :
                   /\ current_routes[i].subnet = PadTarget(kept[i].octets)
                   /\ Len(current_routes[i].subnet) = 4
                   /\ current_routes[i].mask.text =
                          (IF kept[i].bits # "" THEN kept[i].bits
                           ELSE Classful(kept[i].octets))

(***************************************************************************)
(* subnet_check                                                            *)
(***************************************************************************)

AllOnes32 == [i \in 1..32 |-> 1]

\* word >> n, word ^ other and word & other on 32-bit words.
ShiftRight(word, n) == [i \in 1..32 |-> IF i - n >= 1 THEN word[i - n] ELSE 0]
\* ^ left out: the shifted word is used as the mask.
Xor_Omitted(word, other) == word

Xor(word, other) == [i \in 1..32 |-> (word[i] + other[i]) % 2]
And(word, other) == [i \in 1..32 |-> word[i] * other[i]]

\* subnet_check without its mask: the two addresses are compared whole.
subnet_check_WholeAddress(netmask_bits, ip_address, target) ==
    Unpack(ip_address) = Unpack(target)

subnet_check(netmask_bits, ip_address, target) ==
    LET ip_decimal == Unpack(ip_address)
        target_decimal == Unpack(target)
        netmask_decimal == Xor(ShiftRight(AllOnes32, netmask_bits), AllOnes32)
    IN  And(ip_decimal, netmask_decimal) = And(target_decimal, netmask_decimal)

(***************************************************************************)
(* route_cmd and the kernel it talks to                                    *)
(***************************************************************************)

\* The interfaces `ifconfig -a inet` lists, in its order.
Nics == <<"en0", "en1">>

\* 'route %s %s/%s %s' % (routeverb, subnet, mask, gateway): the mask is
\* formatted to its text, whatever its type. `nic` is the interface of the
\* live route entry a delete was issued for ("" for an add).
route_cmd(route, routeverb, nic) ==
    [routeverb |-> IF routeverb = "" THEN "add" ELSE routeverb,
     subnet |-> route.subnet, mask |-> route.mask.text,
     gateway |-> route.gateway, nic |-> nic]

\* The prefix length a mask text denotes, -1 when it denotes none.
PrefixOf(text) ==
    IF \E n \in 0..32 : ToString(n) = text
    THEN CHOOSE n \in 0..32 : ToString(n) = text
    ELSE -1

\* The prefix length of a class A, B or C network.
Natural(octets) ==
    IF octets[1] < 128 THEN 8 ELSE IF octets[1] < 192 THEN 16 ELSE 24

\* The prefix length the kernel holds for a row: netstat leaves it out of a
\* host route and of a network with its natural mask.
KernelPrefix(row) ==
    IF row.bits # "" THEN PrefixOf(row.bits)
    ELSE IF Len(row.octets) = 4 THEN 32
    ELSE Natural(row.octets)

\* The row netstat prints for a route of the kernel.
NetstatRow(subnet, prefix, gateway, netif) ==
    IF prefix = 0 THEN DefaultRow(gateway, netif)
    ELSE IF prefix = 32 THEN NetRow(subnet, "", gateway, netif)
    ELSE LET shown == IF prefix <= 8 THEN 1 ELSE (prefix + 7) \div 8
         IN  NetRow(SubSeq(subnet, 1, shown),
                    IF prefix = Natural(subnet) THEN "" ELSE ToString(prefix),
                    gateway, netif)

\* The rows a delete command names.
Named(cmd, table) ==
    { i \in 1..Len(table) :
        /\ ~table[i].default
        /\ table[i].ipv4_gateway
        /\ SnapshotEntry(table[i]).subnet = cmd.subnet
        /\ SnapshotEntry(table[i]).mask.text = cmd.mask
        /\ table[i].gateway = cmd.gateway }

\* Whether the kernel holds a route to the network an add command names.
Exists(cmd, table) ==
    \E i \in 1..Len(table) :
        /\ ~table[i].default
        /\ PadTarget(table[i].octets) = cmd.subnet
        /\ KernelPrefix(table[i]) = PrefixOf(cmd.mask)

Without(table, rows) ==
    LET Kept(i) == i \notin rows
        kept == SelectSeq([i \in 1..Len(table) |-> i], Kept)
    IN  [k \in 1..Len(kept) |-> table[kept[k]]]

\* The ways the route command can end: "ok" (the table changed), "failed"
\* (an error is printed, exit status 0) and "raised" (a non-zero exit status,
\* which subprocess.check_output turns into CalledProcessError).
Refused(table) == { [status |-> st, table |-> table] : st \in {"failed", "raised"} }

RouteCommand(cmd, table) ==
    IF cmd.routeverb = "add"
    THEN IF PrefixOf(cmd.mask) < 0 \/ Len(cmd.subnet) # 4 \/ Exists(cmd, table)
         THEN Refused(table)
         ELSE { [status |-> "ok",
                 table |-> Append(table, NetstatRow(cmd.subnet, PrefixOf(cmd.mask),
                                                    cmd.gateway, Nics[k]))] :
                k \in 1..Len(Nics) }
    ELSE IF Named(cmd, table) = {}
         THEN Refused(table)
         ELSE { [status |-> "ok", table |-> Without(table, Named(cmd, table))] }

(***************************************************************************)
(* clear_routes                                                            *)
(***************************************************************************)

LinkStates == {"autoselect", "none", "not", ""}

\* get_hardware_link_state(nic)[:2]
FirstTwo(state) ==
    CASE state = "autoselect" -> "au"
      [] state = "none" -> "no"
      [] state = "not" -> "no"
      [] OTHER -> ""

\* A link state test that every state passes.
MatchesNo_AnyState(text) == TRUE

\* re.match('[Nn][Oo]', ...)
MatchesNo(text) == text \in {"no", "No", "nO", "NO"}

InList(x, list) == \E i \in 1..Len(list) : list[i] = x

\* clear_routes without its safe list: every interface whose link is down joins.
RECURSIVE ClearNics_IgnoresSafeList(_, _, _, _)
ClearNics_IgnoresSafeList(nics, clear_nics, safenics_list, states) ==
    IF nics = <<>> THEN clear_nics
    ELSE LET nic == Head(nics)
             joins == MatchesNo(FirstTwo(states[nic])) /\ ~InList(nic, clear_nics)
         IN  ClearNics_IgnoresSafeList(Tail(nics),
                 IF joins THEN Append(clear_nics, nic) ELSE clear_nics,
                 safenics_list, states)

\* The third loop: the interfaces that are not safe and whose link is down join
\* the forced ones.
RECURSIVE ClearNics(_, _, _, _)
ClearNics(nics, clear_nics, safenics_list, states) ==
    IF nics = <<>> THEN clear_nics
    ELSE LET nic == Head(nics)
             joins == /\ ~InList(nic, safenics_list)
                      /\ MatchesNo(FirstTwo(states[nic]))
                      /\ ~InList(nic, clear_nics)
         IN  ClearNics(Tail(nics),
                       IF joins THEN Append(clear_nics, nic) ELSE clear_nics,
                       safenics_list, states)

\* The last loop: for each interface to clear, the routes of the snapshot on it.
RECURSIVE Deletes(_, _)
Deletes(clear_nics, snapshot) ==
    IF clear_nics = <<>> THEN <<>>
    ELSE LET nic == Head(clear_nics)
             OnNic(route) == nic = route.nic
             mine == SelectSeq(snapshot, OnNic)
         IN  [i \in 1..Len(mine) |-> route_cmd(mine[i], "delete", nic)]
                 \o Deletes(Tail(clear_nics), snapshot)

\* The delete commands clear_routes runs, in order, when none of them raises.
clear_routes(force, safe, snapshot, states) ==
    Deletes(ClearNics(Nics, force, safe, states), snapshot)

(***************************************************************************)
(* set_routes                                                              *)
(***************************************************************************)

\* Python's truth value of the gatewaycheck setting: True, False or a string.
Truthy(value) ==
    IF value.type = "bool" THEN value.text = "True" ELSE value.text # ""

\* ==: values of different types are never equal.
PyEq(a, b) == a.type = b.type /\ a.text = b.text

\* The routes of the static_routes setting, each "subnet/mask gateway".
StaticRoutes(statics) ==
    [i \in 1..Len(statics) |->
        [subnet |-> statics[i].subnet,
         mask |-> PyStr(statics[i].bits),
         gateway |-> statics[i].gateway]]

Reachable(route, addrs) ==
    \E i \in 1..Len(addrs) :
        subnet_check(addrs[i].mask, addrs[i].ip_address, route.gateway)

Present(route, snapshot) ==
    \E i \in 1..Len(snapshot) :
        /\ snapshot[i].subnet = route.subnet
        /\ PyEq(snapshot[i].mask, route.mask)

\* set_routes without its gateway check.
SetRoute_NoGatewayCheck(route, addrs, check, snapshot) == ~Present(route, snapshot)

\* The value of set_route when the loop reaches `if set_route`.
SetRoute(route, addrs, check, snapshot) ==
    /\ (IF Truthy(check) THEN Reachable(route, addrs) ELSE TRUE)
    /\ ~Present(route, snapshot)

\* The add commands set_routes runs, in order, when none of them raises.
set_routes(decoded, addrs, check, statics, snapshot) ==
    LET all == decoded \o StaticRoutes(statics)
        Due(route) == SetRoute(route, addrs, check, snapshot)
        due == SelectSeq(all, Due)
    IN  [i \in 1..Len(due) |-> route_cmd(due[i], "", "")]

(***************************************************************************)
(* The passes as steps: one step per route command                         *)
(***************************************************************************)

\* Most runs in a row.
MaxRuns == 2

Issued(cmd, status) ==
    [routeverb |-> cmd.routeverb, subnet |-> cmd.subnet, mask |-> cmd.mask,
     gateway |-> cmd.gateway, nic |-> cmd.nic, status |-> status, run |-> run]

\* A pass is entered: it reads its snapshot and from it follows what it will
\* issue. The loops of clear_routes and set_routes read nothing else again.
Enter(call) ==
    LET snapshot == get_route_table_with_masks(route_table)
    IN  /\ pc' = call
        /\ calls' = Append(calls, [call |-> call, run |-> run'])
        /\ current_routes' = snapshot
        /\ pending' =
               IF call = "clear_routes"
               THEN clear_routes(forcenics', safenics', snapshot, link_state)
               ELSE set_routes(routes', addresses', gatewaycheck', static_routes',
                               snapshot)

\* The running pass issues its next route command. A non-zero exit status
\* raises CalledProcessError, which nothing catches.
RouteCmd ==
    /\ pc \in {"clear_routes", "set_routes"}
    /\ pending # <<>>
    /\ \E outcome \in RouteCommand(Head(pending), route_table) :
           /\ route_table' = outcome.table
           /\ log' = Append(log, Issued(Head(pending), outcome.status))
           /\ IF outcome.status = "raised"
              THEN /\ pc' = "error"
                   /\ error' = "CalledProcessError"
                   /\ pending' = pending
              ELSE /\ pc' = pc
                   /\ error' = error
                   /\ pending' = Tail(pending)
    /\ UNCHANGED <<capture, routes, current_routes, environment, locals, calls, run,
                   ended>>

\* The commands of a run, and those of one verb.
OfRun(r) == SelectSeq(log, LAMBDA e : e.run = r)
Adds(r) == SelectSeq(log, LAMBDA e : e.run = r /\ e.routeverb = "add")
DeletesOf(r) == SelectSeq(log, LAMBDA e : e.run = r /\ e.routeverb = "delete")

(***************************************************************************)
(* clear_routes on its own                                                 *)
(***************************************************************************)

\* A kernel table holds one route per network: the rows are taken from this
\* list, in its order.
KernelRows ==
    << DefaultRow(<<192, 168, 1, 1>>, "en0"),
       LinkRow(<<192, 168, 1>>, "", "en0"),
       NetRow(<<10, 0, 1>>, "24", <<192, 168, 1, 254>>, "en0"),
       NetRow(<<10, 0, 2, 0>>, "25", <<192, 168, 1, 253>>, "en1"),
       NetRow(<<172, 16>>, "", <<192, 168, 1, 254>>, "en1"),
       NetRow(<<192, 168, 5>>, "", <<192, 168, 1, 254>>, "en0"),
       NetRow(<<10>>, "", <<192, 168, 1, 254>>, "en1") >>

RowChoices ==
    { picked \in SUBSET (1..Len(KernelRows)) : Cardinality(picked) <= MaxRows }

KernelTable(picked) ==
    SelectSeq(KernelRows, LAMBDA row : \E i \in picked : KernelRows[i] = row)

KernelTables == { KernelTable(picked) : picked \in RowChoices }

\* Interface lists, as forcenics.split() and safenics.split() give them.
NicLists == { <<>>, <<"en0">>, <<"en1">>, <<"en0", "en1">> }

NicSet == { Nics[i] : i \in 1..Len(Nics) }

InitClear ==
    /\ pc = "call"
    /\ NoCapture
    /\ routes = <<>>
    /\ error = ""
    /\ route_table \in KernelTables
    /\ current_routes = <<>>
    /\ link_state \in [NicSet -> LinkStates]
    /\ if_addresses = <<>>
    /\ ipconfig = [exit |-> 1, option_121 |-> <<>>]
    /\ override = <<>>
    /\ NoBundle
    /\ main_nic = ""
    /\ forcenics \in NicLists
    /\ safenics \in NicLists
    /\ addresses = <<>>
    /\ gatewaycheck = PyTrue
    /\ static_routes = <<>>
    /\ NoHistory

CallClearRoutes ==
    /\ pc = "call"
    /\ UNCHANGED <<capture, routes, error, route_table, environment, locals, log, run,
                   ended>>
    /\ Enter("clear_routes")

\* The pass has issued all its commands and returns to a caller that ends.
Return ==
    /\ pc \in {"clear_routes", "set_routes"}
    /\ pending = <<>>
    /\ pc' = "done"
    /\ UNCHANGED <<capture, routes, error, route_table, current_routes, environment,
                   locals, history>>

NextClear == CallClearRoutes \/ RouteCmd \/ Return

SpecClear == InitClear /\ [][NextClear]_vars

\* A live route entry of the snapshot on a safe interface that is not forced.
Protected(entry) == InList(entry.nic, safenics) /\ ~InList(entry.nic, forcenics)

\* C2: clear_routes issues no delete for a live route entry on an interface
\* that is in its safe list and not in its force list, whatever the link
\* states, the other interfaces and the other routes are.
C2_SafeInterfacesUntouched ==
    /\ \A i \in 1..Len(log) :
           log[i].routeverb = "delete" =>
               /\ ~(InList(log[i].nic, safenics) /\ ~InList(log[i].nic, forcenics))
               /\ \A k \in 1..Len(current_routes) :
                      Protected(current_routes[k]) =>
                          ~(/\ current_routes[k].subnet = log[i].subnet
                            /\ current_routes[k].mask.text = log[i].mask
                            /\ current_routes[k].gateway = log[i].gateway)
    /\ pc = "done" =>
           \A k \in 1..Len(current_routes) :
               Protected(current_routes[k]) =>
                   \E i \in 1..Len(route_table) :
                       /\ ~route_table[i].default
                       /\ route_table[i].ipv4_gateway
                       /\ SnapshotEntry(route_table[i]) = current_routes[k]

\* A pass that ended after deleting a route, with a route left on a safe
\* interface whose link is down.
C2_Witness ==
    /\ pc = "done"
    /\ Len(log) > 0
    /\ \E k \in 1..Len(current_routes) :
           /\ Protected(current_routes[k])
           /\ MatchesNo(FirstTwo(link_state[current_routes[k].nic]))

(***************************************************************************)
(* decode_option_121 followed by set_routes, called again with the same    *)
(* arguments                                                               *)
(***************************************************************************)

R8 == Record(8, <<10, 0, 0, 0>>, <<192, 168, 1, 254>>)
R24 == Record(24, <<10, 0, 1, 0>>, <<192, 168, 1, 254>>)
R32 == Record(32, <<172, 16, 5, 9>>, <<10, 0, 0, 1>>)

Leases == { <<>>, <<R24>>, <<R24, R32>>, <<R8, R24>> }

Address(ip, bits, broadcast) == [ip_address |-> ip, mask |-> bits, broadcast |-> broadcast]

A1 == Address(<<192, 168, 1, 10>>, 24, <<192, 168, 1, 255>>)
A2 == Address(<<10, 0, 0, 5>>, 8, <<10, 255, 255, 255>>)

AddressLists == { <<>>, <<A1>>, <<A1, A2>> }

Static(subnet, bits, gateway) == [subnet |-> subnet, bits |-> bits, gateway |-> gateway]

S1 == Static(<<10, 0, 2, 0>>, "25", <<192, 168, 1, 253>>)
S2 == Static(<<172, 16, 0, 0>>, "16", <<172, 31, 0, 1>>)

StaticLists == { <<>>, <<S1>>, <<S2>>, <<S2, S1>> }

InitSet ==
    /\ pc = "decode_option_121"
    /\ records \in Leases
    /\ tail = <<>>
    /\ option_data = Capture(EncodeAll(records))
    /\ routes = <<>>
    /\ error = ""
    /\ route_table \in KernelTables
    /\ current_routes = <<>>
    /\ NoEnvironment
    /\ main_nic = ""
    /\ forcenics = <<>>
    /\ safenics = <<>>
    /\ addresses \in AddressLists
    /\ gatewaycheck \in {PyTrue, PyFalse, PyStr("0"), PyStr("")}
    /\ static_routes \in StaticLists
    /\ NoHistory

\* set_routes is called with the decoded routes, and after it returned it is
\* called again with the same arguments.
CallSetRoutes ==
    /\ \/ pc = "decoded" /\ error = "" /\ run' = run
       \/ pc = "done" /\ run < MaxRuns /\ run' = run + 1
    /\ UNCHANGED <<capture, routes, error, route_table, environment, locals, log,
                   ended>>
    /\ Enter("set_routes")

NextSet == Decode \/ CallSetRoutes \/ RouteCmd \/ Return

SpecSet == InitSet /\ [][NextSet]_vars

\* The desired routes of the pass: the decoded ones, then the static ones.
Desired == routes \o StaticRoutes(static_routes)

Command(e) ==
    [routeverb |-> e.routeverb, subnet |-> e.subnet, mask |-> e.mask,
     gateway |-> e.gateway, nic |-> e.nic]

\* Whether the pass of run r issued an add for the route.
AddIssued(route, r) ==
    \E i \in 1..Len(log) :
        /\ log[i].run = r
        /\ log[i].routeverb = "add"
        /\ log[i].subnet = route.subnet
        /\ log[i].mask = route.mask.text
        /\ log[i].gateway = route.gateway

\* C1: after a set_routes pass all of whose adds succeeded, a second pass with
\* the same desired routes, addresses and gateway check issues no add.
C1_IdempotentReconciliation ==
    (run = 2 /\ \A i \in 1..Len(log) : log[i].run = 1 => log[i].status = "ok")
        => Adds(2) = <<>>

Held(route) ==
    \E k \in 1..Len(current_routes) :
        /\ current_routes[k].subnet = route.subnet
        /\ current_routes[k].mask.text = route.mask.text

\* The routes the pass did not come to, because an add raised before them.
NotReached(route) ==
    /\ pc = "error"
    /\ \E k \in 2..Len(pending) :
           /\ pending[k].subnet = route.subnet
           /\ pending[k].mask = route.mask.text
           /\ pending[k].gateway = route.gateway

C6_FailedAddNotFatal ==
    pc \in {"done", "error"} =>
        [i \in 1..Len(Adds(run)) |-> Command(Adds(run)[i])]
            = set_routes(routes, addresses, gatewaycheck, static_routes, current_routes)

\* The kernel table held no row before the first command.
StartedEmpty ==
    Len(route_table) = Cardinality({ i \in 1..Len(log) : log[i].status = "ok" })

Scenario ==
    /\ option_data =
           << <<"0000", "18", "0a", "00", "01", "c0", "a8", "01", "fe", "........">> >>
    /\ addresses = << Address(<<192, 168, 1, 10>>, 24, <<192, 168, 1, 255>>) >>
    /\ gatewaycheck = PyTrue
    /\ static_routes = <<>>
    /\ StartedEmpty
    /\ run = 1

TheAdd(e) ==
    /\ e.routeverb = "add"
    /\ e.subnet = <<10, 0, 1, 0>>
    /\ e.mask = "24"
    /\ e.gateway = <<192, 168, 1, 254>>
    /\ e.status = "ok"

\* C8: option bytes 18 0a 00 01 c0 a8 01 fe, one interface address
\* 192.168.1.10/24, the gateway check enabled, no static routes and an empty
\* routing table: decode followed by set_routes issues exactly one command,
\* the add of 10.0.1.0/24 via 192.168.1.254, and no delete.
C8_EndToEnd ==
    Scenario =>
        /\ \A i \in 1..Len(log) : TheAdd(log[i])
        /\ Len(log) <= 1
        /\ pc \in {"decoded", "set_routes", "done"}
               => routes = << [subnet |-> <<10, 0, 1, 0>>, mask |-> PyInt(24),
                               gateway |-> <<192, 168, 1, 254>>] >>
        /\ pc = "done" => Len(log) = 1
        /\ pc # "error"

C8_Witness == Scenario /\ pc = "done" /\ Len(log) = 1 /\ TheAdd(log[1])

(***************************************************************************)
(* main                                                                    *)
(***************************************************************************)

\* The override file: the text after "=" of each of its settings ("" for a
\* setting without a line), the lists split in words.
OverrideFile(nic_line, has_check, check_line, safe_line, force_line, static_line) ==
    [nic |-> nic_line, has_gatewaycheck |-> has_check, gatewaycheck |-> check_line,
     safe_nics |-> safe_line, forcenics |-> force_line, staticroutes |-> static_line]

\* The tuple check_for_override_file returns: nic, gatewaycheck, force_nics,
\* safe_nics, static_routes. No line of the file sets force_nics.
check_for_override_file(file) ==
    [nic |-> file.nic,
     gatewaycheck |-> IF file.has_gatewaycheck THEN PyStr(file.gatewaycheck) ELSE PyTrue,
     force_nics |-> <<>>,
     safe_nics |-> file.safe_nics,
     static_routes |-> file.staticroutes]

\* main unpacks that tuple by position into nic, gatewaycheck, safenics,
\* forcenics, static_routes.
Unpacked(returned) ==
    [nic |-> returned.nic,
     gatewaycheck |-> returned.gatewaycheck,
     safenics |-> returned.force_nics,
     forcenics |-> returned.safe_nics,
     static_routes |-> returned.static_routes]

\* The interface of the last default row, en1 when there is none.
RECURSIVE get_default_nic(_, _)
get_default_nic(table, found) ==
    IF table = <<>> THEN found
    ELSE get_default_nic(Tail(table),
                         IF Head(table).default THEN Head(table).netif ELSE found)

get_ip_addresses(interface) == if_addresses[interface]

\* The output of `ipconfig getpacket`, "" when the command fails.
get_packet(command) ==
    IF command.exit # 0
    THEN [raised |-> "", stdout |-> "", option_121 |-> <<>>]
    ELSE [raised |-> "", stdout |-> "packet", option_121 |-> command.option_121]

\* The lines of the packet that follow the option's header.
get_option(packet) == packet.option_121

\* `nic not in preforcenics` is a test on the text of the list; no name used
\* here is part of another.
InText(name, list) == InList(name, list)

\* main with its two passes in the other order.
main_then_AddsFirst(after, lease) ==
    CASE after = "main" -> IF lease THEN "set_routes" ELSE "clear_routes"
      [] after = "set_routes" -> "clear_routes"
      [] OTHER -> "done"

\* main with the add pass on both branches.
main_then_AlwaysAdds(after, lease) ==
    CASE after = "main" -> "clear_routes"
      [] after = "clear_routes" -> "set_routes"
      [] OTHER -> "done"

\* The pass main enters after `after` has returned ("main": its first one).
main_then(after, lease) ==
    CASE after = "main" -> "clear_routes"
      [] after = "clear_routes" -> IF lease THEN "set_routes" ELSE "done"
      [] OTHER -> "done"

Lease == get_packet(ipconfig).stdout # ""

\* main with the monitored interface added to the force list on both branches.
ForceArgument_AlwaysMonitored(lease, force, nic) ==
    IF InText(nic, force) THEN force ELSE Append(force, nic)

\* The force list main passes to clear_routes: preforcenics with a lease
\* packet, forcenics as it is without one.
ForceArgument(lease, force, nic) ==
    IF lease
    THEN IF InText(nic, force) THEN force ELSE Append(force, nic)
    ELSE force

Fails(exception) ==
    /\ pc' = "error"
    /\ error' = exception
    /\ UNCHANGED <<current_routes, pending, calls>>

Main ==
    /\ pc = "main"
    /\ LET settings == Unpacked(check_for_override_file(override))
           dhcp_nic == IF settings.nic = "" THEN get_default_nic(route_table, "en1")
                       ELSE settings.nic
           packet == get_packet(ipconfig)
           decoded == decode_option_121(get_option(packet))
       IN  /\ main_nic' = dhcp_nic
           /\ gatewaycheck' = settings.gatewaycheck
           /\ safenics' = settings.safenics
           /\ static_routes' = settings.static_routes
           /\ addresses' = get_ip_addresses(dhcp_nic)
           /\ forcenics' = ForceArgument(packet.stdout # "", settings.forcenics, dhcp_nic)
           /\ routes' = IF packet.stdout # "" THEN decoded.routes ELSE <<>>
           /\ UNCHANGED <<capture, route_table, environment, log, run, ended>>
           /\ IF packet.raised # "" THEN Fails(packet.raised)
              ELSE IF packet.stdout # "" /\ decoded.raised # "" THEN Fails(decoded.raised)
              ELSE /\ error' = error
                   /\ Enter(main_then("main", packet.stdout # ""))

\* A pass of main has issued all its commands: main goes on.
MainReturn ==
    /\ pc \in {"clear_routes", "set_routes"}
    /\ pending = <<>>
    /\ UNCHANGED <<capture, routes, error, route_table, environment, locals, log, run>>
    /\ IF main_then(pc, Lease) = "done"
       THEN /\ pc' = "done"
            /\ ended' = Append(ended, route_table)
            /\ UNCHANGED <<current_routes, pending, calls>>
       ELSE /\ ended' = ended
            /\ Enter(main_then(pc, Lease))

\* launchd starts the script again.
Rerun ==
    /\ pc = "done"
    /\ run < MaxRuns
    /\ pc' = "main"
    /\ run' = run + 1
    /\ UNCHANGED <<capture, routes, error, route_table, current_routes, environment,
                   locals, pending, log, calls, ended>>

MainTables ==
    { KernelTable(picked) : picked \in { c \in RowChoices : c \subseteq 1..4 } }

OverrideFiles ==
    { OverrideFile(n, h, c, s, f, r) :
        n \in {"", "en1"}, h \in BOOLEAN, c \in {"", "0"},
        s \in {<<>>, <<"en0">>}, f \in {<<>>, <<"en1">>}, r \in {<<>>, <<S1>>} }

Init ==
    /\ pc = "main"
    /\ NoCapture
    /\ routes = <<>>
    /\ error = ""
    /\ route_table \in MainTables
    /\ current_routes = <<>>
    /\ link_state \in [NicSet -> {"autoselect", "none"}]
    /\ if_addresses \in { [en0 |-> <<A1>>, en1 |-> <<>>], [en0 |-> <<A2>>, en1 |-> <<A1>>] }
    /\ ipconfig \in { [exit |-> 1, option_121 |-> <<>>],
                      [exit |-> 0, option_121 |-> <<>>],
                      [exit |-> 0, option_121 |-> Capture(EncodeAll(<<R24>>))],
                      [exit |-> 0, option_121 |-> Capture(EncodeAll(<<R24, R32>>))],
                      [exit |-> 0, option_121 |-> Capture(EncodeAll(<<R32, R24>>))] }
    /\ override \in { f \in OverrideFiles : ~f.has_gatewaycheck => f.gatewaycheck = "" }
    /\ NoBundle
    /\ NoLocals
    /\ NoHistory

Next == Main \/ RouteCmd \/ MainReturn \/ Rerun

Spec == Init /\ [][Next]_vars

\* C7: in every run of main every delete is issued before the first add, and
\* the snapshot that decides the adds is read after the clear pass has ended.
C7_ClearBeforeAdd ==
    /\ \A i \in 1..Len(log) : \A j \in 1..Len(log) :
           (i < j /\ log[i].run = log[j].run)
               => ~(log[i].routeverb = "add" /\ log[j].routeverb = "delete")
    /\ \A i \in 1..Len(calls) : \A j \in 1..Len(calls) :
           (i < j /\ calls[i].run = calls[j].run)
               => ~(calls[i].call = "set_routes" /\ calls[j].call = "clear_routes")
    /\ (pc = "set_routes" /\ Adds(run) = <<>>)
           => /\ current_routes = get_route_table_with_masks(route_table)
              /\ \E i \in 1..Len(calls) :
                     calls[i] = [call |-> "clear_routes", run |-> run]

\* A run that deleted a route and then added one.
C7_Witness ==
    /\ pc = "done"
    /\ DeletesOf(run) # <<>>
    /\ Adds(run) # <<>>

\* C10: when get_packet returns no lease packet, the run makes the clear pass
\* and ends without an error and without an add, also when static routes are
\* configured.
C10_NoLeaseClearsOnly ==
    ipconfig.exit # 0 =>
        /\ pc \in {"main", "clear_routes", "done"}
        /\ error = ""
        /\ \A i \in 1..Len(log) : log[i].routeverb = "delete" /\ log[i].status = "ok"
        /\ \A i \in 1..Len(calls) : calls[i].call = "clear_routes"
        /\ pc = "done" =>
               /\ \E i \in 1..Len(calls) : calls[i].run = run
               /\ pending = <<>>

\* A run without a lease that ended after deleting a route, with a static
\* route configured.
C10_Witness ==
    /\ ipconfig.exit # 0
    /\ pc = "done"
    /\ override.staticroutes # <<>>
    /\ DeletesOf(run) # <<>>

\* The routes a kernel table holds, whatever the order netstat prints them in.
RoutesOf(table) == { table[i] : i \in 1..Len(table) }

\* C11: a run of main that follows a run with the same lease, settings,
\* addresses and link states ends without an error, and leaves the routing
\* table as the run before it left it.
C11_RerunIdempotent ==
    (run > 1 /\ pc \in {"done", "error"}) =>
        /\ pc = "done"
        /\ error = ""
        /\ RoutesOf(route_table) = RoutesOf(ended[run - 1])

(***************************************************************************)
(* The two producers of prefix lengths on any input: decode_option_121 on  *)
(* any byte stream, get_route_table_with_masks on any table                *)
(***************************************************************************)

\* Most bytes of a stream.
MaxStream == 9

\* A prefix length under 8, one over 32, and an octet.
StreamBytes == {1, 33, 10}

Streams == UNION { [1..n -> StreamBytes] : n \in 0..MaxStream }

InitRange ==
    /\ records = <<>>
    /\ \/ /\ pc = "decode_option_121"
          /\ tail \in Streams
          /\ route_table = <<>>
       \/ /\ pc = "get_route_table_with_masks"
          /\ tail = <<>>
          /\ route_table \in Tables
    /\ option_data = Capture(tail)
    /\ routes = <<>>
    /\ error = ""
    /\ current_routes = <<>>
    /\ NoEnvironment
    /\ NoLocals
    /\ NoHistory

NextRange == Decode \/ Snapshot

SpecRange == InitRange /\ [][NextRange]_vars

\* C12: every route decode_option_121 emits has a prefix length in 0..32 and
\* a destination of exactly 4 octets, and every entry of the snapshot has a
\* prefix length that is a number in 0..32.
C12_PrefixLengthRange ==
    /\ \A i \in 1..Len(routes) :
           /\ PrefixOf(routes[i].mask.text) \in 0..32
           /\ Len(routes[i].subnet) = 4
    /\ \A i \in 1..Len(current_routes) :
           PrefixOf(current_routes[i].mask.text) \in 0..32

\* The data byte tokens of the capture, in order.
DataTokens ==
    LET bytes == EncodeAll(records) \o tail
    IN  [i \in 1..Len(bytes) |-> HexToken[bytes[i]]]

\* C13: the byte stream decode_option_121 parses is exactly the data byte
\* tokens of the capture, in order: offset labels and gutter text of any
\* length add no byte, and the decoder does not fail on them.
C13_TokenFiltering ==
    pc = "decoded" =>
        /\ ByteStream(option_data) = DataTokens
        /\ error = ""

\* C14: in a set_routes pass no add is issued for a desired route, decoded or
\* static, when the snapshot of the pass holds an entry with the route's
\* destination and prefix length, whatever that entry's gateway and interface
\* are and whatever the gateway check says.
C14_AlreadyPresentSuppression ==
    \A i \in 1..Len(Desired) :
        Held(Desired[i]) => ~AddIssued(Desired[i], run)

\* The link states networksetup reports for a link that is down or absent.
Down(state) == state \in {"none", "not"}

\* The must-clear rule: the forced interfaces, and the present interfaces that
\* are not safe and whose link is down or absent.
MustClear(nic) ==
    \/ InList(nic, forcenics)
    \/ /\ InList(nic, Nics)
       /\ ~InList(nic, safenics)
       /\ Down(link_state[nic])

\* The delete command that names a live route entry with its own fields.
DeleteOf(entry) ==
    [routeverb |-> "delete", subnet |-> entry.subnet, mask |-> entry.mask.text,
     gateway |-> entry.gateway, nic |-> entry.nic]

\* C15: clear_routes issues a delete for a live route entry exactly when the
\* entry's interface is forced, or is present, not safe and down; the delete
\* names the entry's own destination, prefix length and gateway, and no other
\* command is issued.
C15_MustClearRule ==
    /\ \A i \in 1..Len(log) :
           \E k \in 1..Len(current_routes) :
               /\ Command(log[i]) = DeleteOf(current_routes[k])
               /\ MustClear(current_routes[k].nic)
    /\ pc = "done" =>
           /\ \A k \in 1..Len(current_routes) :
                  MustClear(current_routes[k].nic) =>
                      \E i \in 1..Len(log) :
                          Command(log[i]) = DeleteOf(current_routes[k])
           /\ Len(log) = Cardinality({ k \in 1..Len(current_routes) :
                                          MustClear(current_routes[k].nic) })

\* A pass that ended after deleting the route of an interface that is down and
\* not forced, and left the route of an interface that is up.
C15_Witness ==
    /\ pc = "done"
    /\ forcenics = <<>>
    /\ \E k \in 1..Len(current_routes) : \E j \in 1..Len(current_routes) :
           /\ Down(link_state[current_routes[k].nic])
           /\ \E i \in 1..Len(log) : Command(log[i]) = DeleteOf(current_routes[k])
           /\ ~MustClear(current_routes[j].nic)
           /\ ~Down(link_state[current_routes[j].nic])

\* An interface the override file names as safe and not as forced, other than
\* the monitored one.
SafeOnly(nic) ==
    /\ InList(nic, override.safe_nics)
    /\ ~InList(nic, override.forcenics)
    /\ nic # main_nic

\* C16: in a run of main the safe list of the clear pass is the safe_nics
\* setting and its force list is the forcenics setting, with at most the
\* monitored interface added, so that no delete is issued for a route on an
\* interface that is only named in safe_nics and is not the monitored one,
\* whatever its link state is.
C16_ConfigurationRoles ==
    /\ pc \in {"clear_routes", "set_routes", "done"} =>
           /\ safenics = override.safe_nics
           /\ forcenics \in {override.forcenics, Append(override.forcenics, main_nic)}
    /\ \A i \in 1..Len(log) :
           log[i].routeverb = "delete" => ~SafeOnly(log[i].nic)

\* C17: a record with prefix length 0 takes 5 bytes of the stream and decodes
\* to the route 0.0.0.0/0 via its gateway; the byte after it is read as the
\* prefix length of the next record.
C17_PrefixZeroRecord ==
    (pc = "decoded" /\ tail = <<>> /\ records # <<>> /\ records[1].prefixLength = 0) =>
        /\ error = ""
        /\ routes # <<>>
        /\ routes[1] = [subnet |-> <<0, 0, 0, 0>>, mask |-> PyInt(0),
                        gateway |-> records[1].gateway]
        /\ Len(records) > 1 =>
               /\ Len(routes) > 1
               /\ routes[2].mask = PyInt(records[2].prefixLength)

\* C18: for every record of the capture whose prefix length is not a multiple
\* of 8, the decoder reads floor(prefix / 8) subnet octets, pads the
\* destination with zero octets to 4 and reads the next 4 bytes as the
\* gateway: the record's route is emitted at the record's position.
C18_FloorOctetCount ==
    (pc = "decoded" /\ tail = <<>>) =>
        \A i \in 1..Len(records) :
            records[i].prefixLength % 8 # 0 =>
                /\ Len(Encode(records[i])) = 1 + (records[i].prefixLength \div 8) + 4
                /\ Len(routes) >= i
                /\ routes[i] =
                       [subnet |-> RouteOf(records[i]).subnet,
                        mask |-> PyInt(records[i].prefixLength),
                        gateway |-> records[i].gateway]

(***************************************************************************)
(* subnet_check on any prefix length: set_routes with the gateway check    *)
(* enabled, one interface address, one route and an empty routing table    *)
(***************************************************************************)

PrefixLengths == 0..32

\* Addresses that differ from one another in their first bit, in bits in the
\* middle and in their last bit.
Hosts ==
    { <<192, 168, 1, 10>>, <<192, 168, 1, 11>>, <<192, 168, 1, 254>>,
      <<192, 168, 0, 29>>, <<192, 40, 1, 10>>, <<64, 168, 1, 10>>, <<10, 0, 0, 1>> }

InitSubnet ==
    /\ pc = "decoded"
    /\ NoCapture
    /\ routes \in { << [subnet |-> <<10, 0, 1, 0>>, mask |-> PyInt(24), gateway |-> t] >> :
                      t \in Hosts }
    /\ error = ""
    /\ NoKernel
    /\ NoEnvironment
    /\ main_nic = ""
    /\ forcenics = <<>>
    /\ safenics = <<>>
    /\ addresses \in { << Address(a, n, <<255, 255, 255, 255>>) >> :
                         a \in Hosts, n \in PrefixLengths }
    /\ gatewaycheck = PyTrue
    /\ static_routes = <<>>
    /\ NoHistory

NextSubnet == CallSetRoutes \/ RouteCmd \/ Return

SpecSubnet == InitSubnet /\ [][NextSubnet]_vars

\* Whether two addresses have the same leading n bits.
SameLeadingBits(n, a, t) ==
    \A i \in 1..n : Bits8(a[((i - 1) \div 8) + 1])[((i - 1) % 8) + 1]
                        = Bits8(t[((i - 1) \div 8) + 1])[((i - 1) % 8) + 1]

\* C19: for every prefix length n in 0..32 and addresses a and t,
\* subnet_check(n, a, t) is true exactly when the leading n bits of a and t are
\* equal: with the check enabled, the route via t gets its add exactly then.
\* With n = 0 every pair passes, with n = 32 only a = t does.
C19_SubnetMembership ==
    LET n == addresses[1].mask
        a == addresses[1].ip_address
        t == routes[1].gateway
    IN  /\ subnet_check(n, a, t) <=> SameLeadingBits(n, a, t)
        /\ n = 0 => subnet_check(n, a, t)
        /\ n = 32 => (subnet_check(n, a, t) <=> a = t)
        /\ (pc = "done" /\ run = 1) => (Adds(1) # <<>> <=> SameLeadingBits(n, a, t))

\* A pass that ended with the add of a route whose gateway shares 25 leading
\* bits, and not the whole address, with the interface address.
C19_Witness ==
    /\ pc = "done"
    /\ run = 1
    /\ addresses[1].mask = 25
    /\ addresses[1].ip_address # routes[1].gateway
    /\ Adds(1) # <<>>

\* The force list main holds after it has read the override settings.
SettingsForce == Unpacked(check_for_override_file(override)).forcenics

S24 == Static(<<10, 0, 1, 0>>, "24", <<192, 168, 1, 254>>)

InitRepeated ==
    /\ pc = "decode_option_121"
    /\ records \in { <<>>, <<R24>>, <<R24, R24>>, <<R8, R24>> }
    /\ tail = <<>>
    /\ option_data = Capture(EncodeAll(records))
    /\ routes = <<>>
    /\ error = ""
    /\ route_table \in KernelTables
    /\ current_routes = <<>>
    /\ NoEnvironment
    /\ main_nic = ""
    /\ forcenics = <<>>
    /\ safenics = <<>>
    /\ addresses = <<A1>>
    /\ gatewaycheck \in {PyTrue, PyFalse}
    /\ static_routes \in { <<>>, <<S24>>, <<S1, S1>>, <<S1, S24>> }
    /\ NoHistory

SpecRepeated == InitRepeated /\ [][NextSet]_vars

\* C21: in one set_routes pass at most one add is issued per destination and
\* prefix length, also when the desired list, decoded routes followed by
\* static routes, names a destination and prefix length more than once.
C21_NoDuplicateAdds ==
    \A i \in 1..Len(log) : \A j \in 1..Len(log) :
        (/\ i < j
         /\ log[i].run = log[j].run
         /\ log[i].routeverb = "add"
         /\ log[j].routeverb = "add")
            => ~(log[i].subnet = log[j].subnet /\ log[i].mask = log[j].mask)

\* The default route and the rows whose gateway is no IPv4 address.
Unrelated(row) == row.default \/ ~row.ipv4_gateway

\* Whether a command names the destination, gateway and interface of a row.
IssuedFor(e, row) ==
    /\ e.subnet = PadTarget(row.octets)
    /\ e.gateway = row.gateway
    /\ e.nic = row.netif

\* C22: clear_routes issues no delete for the default route or for a row
\* whose gateway is no IPv4 address, also when the row's interface is forced
\* or down: every delete is issued for a row with an IPv4 gateway that is not
\* the default route, and the other rows stay in the table.
C22_UnrelatedRowsKept ==
    /\ \A i \in 1..Len(log) :
           log[i].routeverb = "delete" =>
               /\ Len(log[i].gateway) = 4
               /\ \A k \in 1..Len(KernelRows) :
                      Unrelated(KernelRows[k]) => ~IssuedFor(log[i], KernelRows[k])
               /\ \E k \in 1..Len(KernelRows) :
                      ~Unrelated(KernelRows[k]) /\ IssuedFor(log[i], KernelRows[k])
    /\ \A k \in 1..Len(current_routes) :
           \A i \in 1..Len(KernelRows) :
               Unrelated(KernelRows[i]) =>
                   ~(/\ current_routes[k].subnet = PadTarget(KernelRows[i].octets)
                     /\ current_routes[k].gateway = KernelRows[i].gateway)

\* A pass that ended after deleting a route of a forced interface, with the
\* default route or a link-level row of that interface still in the table.
C22_Witness ==
    /\ pc = "done"
    /\ \E i \in 1..Len(log) : \E u \in 1..Len(route_table) :
           /\ log[i].routeverb = "delete"
           /\ log[i].status = "ok"
           /\ InList(log[i].nic, forcenics)
           /\ Unrelated(route_table[u])
           /\ route_table[u].netif = log[i].nic

(***************************************************************************)
(* add_dhcp_request_option.py: process_plist_file and its main             *)
(***************************************************************************)

\* A line of the plist: what it holds ("dhcpkey": the key
\* DHCPRequestedParameterList, "key": another key, "array": <array>,
\* "endarray": </array>, "emptyarray": <array/>, "integer": one
\* <integer>value</integer>, "other": none of these), the number of
\* characters before its first "<", the character they are, and the value of
\* an integer line.
PlistLine(kind, indent, ws, value) ==
    [kind |-> kind, indent |-> indent, ws |-> ws, value |-> value]

DEFAULT_OPTION_CODE == "121"

\* get_argv(): sys.argv[1] when there is one, else the default.
get_argv(argv) == IF argv = <<>> THEN DEFAULT_OPTION_CODE ELSE argv[1]

\* '<integer>%s</integer>\n' % option_code after tab_offset tabs.
insert_key(code, tab_offset) == PlistLine("integer", tab_offset, "tab", code)

ProcessStart ==
    [dhcp_key_in_file |-> FALSE, option_in_plist |-> FALSE, end_of_array |-> FALSE,
     file_needs_change |-> FALSE, tab_offset |-> 0, new_file_data |-> <<>>]

\* The body of the loop for one line.
ProcessLine(st, line, code) ==
    LET inside == st.dhcp_key_in_file /\ ~st.option_in_plist /\ ~st.end_of_array
        offset == IF inside /\ line.kind = "integer" /\ st.tab_offset = 0
                  THEN line.indent ELSE st.tab_offset
        found == IF inside /\ line.kind = "integer" /\ line.value = code
                 THEN TRUE ELSE st.option_in_plist
        ended_here == IF inside /\ line.kind = "endarray" THEN TRUE ELSE st.end_of_array
        inserts == inside /\ ~found /\ ended_here /\ offset # 0
    IN  [dhcp_key_in_file |-> st.dhcp_key_in_file \/ line.kind = "dhcpkey",
         option_in_plist |-> found,
         end_of_array |-> ended_here,
         file_needs_change |-> st.file_needs_change \/ inserts,
         tab_offset |-> offset,
         new_file_data |->
             (IF inserts THEN Append(st.new_file_data, insert_key(code, offset))
              ELSE st.new_file_data) \o <<line>>]

RECURSIVE ProcessLoop(_, _, _)
ProcessLoop(file_data, st, code) ==
    IF file_data = <<>> THEN st
    ELSE ProcessLoop(Tail(file_data), ProcessLine(st, Head(file_data), code), code)

\* The lines to write and whether the file needs to be written.
process_plist_file(file_data, code) ==
    LET used == IF code = "" THEN "121" ELSE code
        st == ProcessLoop(file_data, ProcessStart, used)
    IN  [new_file_data |-> st.new_file_data, file_needs_change |-> st.file_needs_change]

\* Most integer lines of the DHCPRequestedParameterList array.
MaxIntegers == 2

IntegerLines ==
    { PlistLine("integer", 2, "tab", "1"), PlistLine("integer", 2, "tab", "121"),
      PlistLine("integer", 0, "", "3"), PlistLine("integer", 4, "space", "12") }

Plain(kind) == PlistLine(kind, 1, "tab", "")

\* The value of a key: an <array/>, or <array>, integer lines and </array>.
ArrayOf(integers) == <<Plain("array")>> \o integers \o <<Plain("endarray")>>

DhcpArrays ==
    { <<Plain("emptyarray")>> }
        \cup { ArrayOf(ints) : ints \in UNION { [1..n -> IntegerLines] : n \in 0..MaxIntegers } }

\* Another key with its array of integers, or nothing.
OtherArrays ==
    { <<>> } \cup
    { <<Plain("key")>> \o ArrayOf(ints) :
        ints \in { <<>>, <<PlistLine("integer", 2, "tab", "1")>>,
                    <<PlistLine("integer", 2, "tab", "121")>> } }

PlistFiles ==
    { <<Plain("other")>> \o before \o key \o after \o <<Plain("other")>> :
        before \in OtherArrays, after \in OtherArrays,
        key \in { <<>> } \cup { <<Plain("dhcpkey")>> \o a : a \in DhcpArrays } }

InitPlist ==
    /\ pc = "add_dhcp_request_option"
    /\ plist \in PlistFiles
    /\ option_code \in { <<>>, <<"121">>, <<"12">>, <<"">> }
    /\ file_needs_change = FALSE
    /\ NoCapture
    /\ routes = <<>>
    /\ error = ""
    /\ NoKernel
    /\ link_state = <<>>
    /\ if_addresses = <<>>
    /\ ipconfig = [exit |-> 1, option_121 |-> <<>>]
    /\ override = <<>>
    /\ NoLocals
    /\ NoHistory

\* main: the file is written when process_plist_file says it needs a change
\* and returned lines.
AddOption ==
    /\ pc = "add_dhcp_request_option"
    /\ LET returned == process_plist_file(plist, get_argv(option_code))
       IN  /\ file_needs_change' = returned.file_needs_change
           /\ plist' = IF returned.file_needs_change /\ returned.new_file_data # <<>>
                        THEN returned.new_file_data
                        ELSE plist
    /\ pc' = "exit"
    /\ UNCHANGED <<capture, routes, error, route_table, current_routes, link_state,
                   if_addresses, ipconfig, override, option_code, locals, history>>

\* The script is started again with the same argument.
AddOptionAgain ==
    /\ pc = "exit"
    /\ run < MaxRuns
    /\ pc' = "add_dhcp_request_option"
    /\ run' = run + 1
    /\ UNCHANGED <<capture, routes, error, route_table, current_routes, environment,
                   locals, pending, log, calls, ended>>

NextPlist == AddOption \/ AddOptionAgain

SpecPlist == InitPlist /\ [][NextPlist]_vars

\* The option the script was asked for.
Option == IF get_argv(option_code) = "" THEN "121" ELSE get_argv(option_code)

\* The line of the key DHCPRequestedParameterList, 0 when the file has none.
DhcpKeyAt(file) ==
    IF \E k \in 1..Len(file) : file[k].kind = "dhcpkey"
    THEN CHOOSE k \in 1..Len(file) :
             /\ file[k].kind = "dhcpkey"
             /\ \A j \in 1..(k - 1) : file[j].kind # "dhcpkey"
    ELSE 0

\* The line of the closing </array> of that key's array, 0 when the key has no
\* array that is closed on a line of its own.
ClosingAt(file) ==
    LET k == DhcpKeyAt(file)
    IN  IF k # 0 /\ k < Len(file) /\ file[k + 1].kind = "array"
           /\ \E j \in (k + 2)..Len(file) : file[j].kind = "endarray"
        THEN CHOOSE j \in (k + 2)..Len(file) :
                 /\ file[j].kind = "endarray"
                 /\ \A i \in (k + 2)..(j - 1) : file[i].kind # "endarray"
        ELSE 0

\* Whether that array holds the option.
ArrayHolds(file, code) ==
    \E i \in (DhcpKeyAt(file) + 1)..(ClosingAt(file) - 1) :
        file[i].kind = "integer" /\ file[i].value = code

\* Whether `after` is `before` with one integer line of the option put in
\* directly before line `at`.
InsertedAt(before, after, at, code) ==
    /\ at \in 1..Len(before)
    /\ Len(after) = Len(before) + 1
    /\ after[at].kind = "integer"
    /\ after[at].value = code
    /\ \A i \in 1..Len(before) : before[i] = after[IF i < at THEN i ELSE i + 1]

\* C23: a run of the script leaves the file as it is, or puts one integer line
\* of the option directly before the closing </array> of the
\* DHCPRequestedParameterList array, and that only when the array does not
\* hold the option; file_needs_change tells which; every line of the file is
\* kept, in order; and process_plist_file on the resulting file reports no
\* change and returns its lines as they are.
C23_PlistEditIdempotent ==
    [][pc = "add_dhcp_request_option" =>
          /\ \/ plist' = plist /\ ~file_needs_change'
             \/ /\ file_needs_change'
                /\ ClosingAt(plist) # 0
                /\ ~ArrayHolds(plist, Option)
                /\ InsertedAt(plist, plist', ClosingAt(plist), Option)
          /\ process_plist_file(plist', get_argv(option_code))
                 = [new_file_data |-> plist', file_needs_change |-> FALSE]
          /\ run > 1 => (plist' = plist /\ ~file_needs_change')]_vars

====
